---- MODULE Spec2Model ----
(***************************************************************************)
(* P-Code to IR lifting of cwe_checker_lib (src/pcode/term.rs):            *)
(* Project::normalize, Project::into_ir_project and the conversions they   *)
(* call.  A run starts from a parsed Project, optionally normalizes it,    *)
(* and lifts it; a Rust panic ends the run in pc = "panicked".             *)
(***************************************************************************)
EXTENDS Integers, Sequences, FiniteSets, TLC

VARIABLES
    parsed,               \* the Project as deserialized (never changes)
    project,              \* the Project value that normalize mutates
    binary_base_address,  \* the caller's argument of into_ir_project
    log_messages,         \* the Vec<LogMessage> returned by normalize
    ir_project,           \* the IrProject returned by into_ir_project
    normalized,           \* TRUE once normalize has returned
    pc                    \* "parsed" | "normalized" | "lifted" | "panicked"

vars == <<parsed, project, binary_base_address, log_messages, ir_project,
          normalized, pc>>

----------------------------------------------------------------------------
(* Option<T>, Vec<T> and the panic outcome                                 *)

None == <<>>
Some(x) == <<x>>
IsSome(o) == Len(o) = 1
IsNone(o) == Len(o) = 0
Unwrap(o) == o[1]

Panic == [kind |-> "Panic"]
IsPanic(r) == r.kind = "Panic"

RECURSIVE Flatten(_)
Flatten(ss) == IF ss = <<>> THEN <<>> ELSE Head(ss) \o Flatten(Tail(ss))

Range(s) == {s[i] : i \in DOMAIN s}

----------------------------------------------------------------------------
(* Identifiers and terms                                                    *)

Tid(id, address) == [id |-> id, address |-> address]
with_id_suffix(tid, suffix) == [tid EXCEPT !.id = @ \o suffix]
Term(tid, term) == [tid |-> tid, term |-> term]

----------------------------------------------------------------------------
(* P-Code operands.  Hexadecimal text is a sequence of characters.          *)

RegVar(name, size) ==
    [name |-> Some(name), value |-> None, address |-> None, size |-> size,
     is_virtual |-> FALSE]
new_virtual(name, size) ==
    [name |-> Some(name), value |-> None, address |-> None, size |-> size,
     is_virtual |-> TRUE]
new_const(value, size) ==
    [name |-> None, value |-> Some(value), address |-> None, size |-> size,
     is_virtual |-> FALSE]
RamVar(address, size) ==
    [name |-> None, value |-> None, address |-> Some(address), size |-> size,
     is_virtual |-> FALSE]

Expr(mnemonic, input0, input1, input2) ==
    [mnemonic |-> mnemonic, input0 |-> input0, input1 |-> input1,
     input2 |-> input2]
Def(lhs, rhs) == [lhs |-> lhs, rhs |-> rhs]

\* Variable::to_load_def: a LOAD from the constant address of var into a
\* temporary of the pointer size named target_register_name
to_load_def(var, target_register_name, generic_pointer_size) ==
    Def(Some(new_virtual(target_register_name, generic_pointer_size)),
        Expr("LOAD", None,
             Some(new_const(Unwrap(var.address), generic_pointer_size)),
             None))

Direct(tid) == [kind |-> "Direct", tid |-> tid]
Indirect(var) == [kind |-> "Indirect", var |-> var]
Call(target, return_, call_string) ==
    [target |-> target, return_ |-> return_, call_string |-> call_string]
Jmp(mnemonic, goto, call, condition, target_hints) ==
    [mnemonic |-> mnemonic, goto |-> goto, call |-> call,
     condition |-> condition, target_hints |-> target_hints]
JmpType ==
    {"BRANCH", "CBRANCH", "BRANCHIND", "CALL", "CALLIND", "CALLOTHER",
     "RETURN"}
Blk(defs, jmps) == [kind |-> "Blk", defs |-> defs, jmps |-> jmps]
Sub(name, blocks) == [name |-> name, blocks |-> blocks]

----------------------------------------------------------------------------
(* Blk::add_load_defs_for_implicit_ram_access                               *)

HasAddress(input) == IsSome(input) /\ IsSome(Unwrap(input).address)

\* one operand slot of one def: the synthesized load (if any)
SlotLoad(def, input, slot, generic_pointer_size) ==
    IF HasAddress(input)
    THEN <<Term(with_id_suffix(def.tid, "_load" \o slot),
                to_load_def(Unwrap(input), "$load_temp" \o slot,
                            generic_pointer_size))>>
    ELSE <<>>

\* one operand slot of the cleaned def
SlotCleaned(input, slot, generic_pointer_size) ==
    IF HasAddress(input)
    THEN to_load_def(Unwrap(input), "$load_temp" \o slot,
                     generic_pointer_size).lhs
    ELSE input

\* the cleaned def with operand slot 2 left as it was
CleanedDefKeepSlot2(def, generic_pointer_size) ==
    Term(def.tid,
         Def(def.term.lhs,
             Expr(def.term.rhs.mnemonic,
                  SlotCleaned(def.term.rhs.input0, "0", generic_pointer_size),
                  SlotCleaned(def.term.rhs.input1, "1", generic_pointer_size),
                  def.term.rhs.input2)))

CleanedDef(def, generic_pointer_size) ==
    Term(def.tid,
         Def(def.term.lhs,
             Expr(def.term.rhs.mnemonic,
                  SlotCleaned(def.term.rhs.input0, "0", generic_pointer_size),
                  SlotCleaned(def.term.rhs.input1, "1", generic_pointer_size),
                  SlotCleaned(def.term.rhs.input2, "2", generic_pointer_size))))

\* the loads pushed after the cleaned def instead of before it
RefactorDefLoadsAfter(def, generic_pointer_size) ==
    <<CleanedDef(def, generic_pointer_size)>>
    \o SlotLoad(def, def.term.rhs.input0, "0", generic_pointer_size)
    \o SlotLoad(def, def.term.rhs.input1, "1", generic_pointer_size)
    \o SlotLoad(def, def.term.rhs.input2, "2", generic_pointer_size)

\* what the body of the loop over self.defs pushes for one def
RefactorDef(def, generic_pointer_size) ==
    SlotLoad(def, def.term.rhs.input0, "0", generic_pointer_size)
    \o SlotLoad(def, def.term.rhs.input1, "1", generic_pointer_size)
    \o SlotLoad(def, def.term.rhs.input2, "2", generic_pointer_size)
    \o <<CleanedDef(def, generic_pointer_size)>>

RefactorDefs(defs, generic_pointer_size) ==
    Flatten([i \in DOMAIN defs |-> RefactorDef(defs[i], generic_pointer_size)])

\* the label the loop over self.jmps inspects; None for other mnemonics
JmpInputLabel(jmp) ==
    IF jmp.mnemonic = "BRANCHIND" THEN jmp.goto
    ELSE IF IsNone(jmp.call) THEN None
    ELSE Unwrap(jmp.call).target

\* unwrap() of an absent field or a Direct label panics
JmpInputPanics(jmp) ==
    /\ jmp.mnemonic \in {"BRANCHIND", "CALLIND"}
    /\ \/ IsNone(JmpInputLabel(jmp))
       \/ Unwrap(JmpInputLabel(jmp)).kind = "Direct"

JmpNeedsLoad(jmp) ==
    /\ jmp.mnemonic \in {"BRANCHIND", "CALLIND"}
    /\ ~JmpInputPanics(jmp)
    /\ IsSome(Unwrap(JmpInputLabel(jmp)).var.address)

\* the load of a jump into the same temporary whatever the position
JmpLoadDefSameTemp(jmp, index, generic_pointer_size) ==
    to_load_def(Unwrap(JmpInputLabel(jmp)).var,
                "$load_temp" \o ToString(0), generic_pointer_size)

\* index is the 0-based position of the jump in self.jmps
JmpLoadDef(jmp, index, generic_pointer_size) ==
    to_load_def(Unwrap(JmpInputLabel(jmp)).var,
                "$load_temp" \o ToString(index), generic_pointer_size)

JmpLoad(jmp_term, index, generic_pointer_size) ==
    IF JmpNeedsLoad(jmp_term.term)
    THEN <<Term(with_id_suffix(jmp_term.tid, "_load"),
                JmpLoadDef(jmp_term.term, index, generic_pointer_size))>>
    ELSE <<>>

CleanedJmp(jmp_term, index, generic_pointer_size) ==
    IF ~JmpNeedsLoad(jmp_term.term) THEN jmp_term
    ELSE LET new_label ==
                 Indirect(Unwrap(JmpLoadDef(jmp_term.term, index,
                                            generic_pointer_size).lhs))
         IN  IF jmp_term.term.mnemonic = "BRANCHIND"
             THEN [jmp_term EXCEPT !.term.goto = Some(new_label)]
             ELSE [jmp_term EXCEPT
                       !.term.call =
                           Some([Unwrap(@) EXCEPT !.target = Some(new_label)])]

add_load_defs_for_implicit_ram_access(blk, generic_pointer_size) ==
    IF \E i \in DOMAIN blk.jmps : JmpInputPanics(blk.jmps[i].term)
    THEN Panic
    ELSE [kind |-> "Blk",
          defs |-> RefactorDefs(blk.defs, generic_pointer_size)
                   \o Flatten([i \in DOMAIN blk.jmps |->
                                  JmpLoad(blk.jmps[i], i - 1,
                                          generic_pointer_size)]),
          jmps |-> [i \in DOMAIN blk.jmps |->
                       CleanedJmp(blk.jmps[i], i - 1, generic_pointer_size)]]

----------------------------------------------------------------------------
(* Operand conversions (pcode::expressions), IR values as tagged records    *)

IrVar(name, size, is_temp) ==
    [kind |-> "Variable", name |-> name, size |-> size, is_temp |-> is_temp]

\* impl From<Variable> for IrVariable: the name is unwrapped
VariableToIrVariable(var) ==
    IF IsNone(var.name) THEN Panic
    ELSE IrVar(Unwrap(var.name), var.size, var.is_virtual)

IrExprVar(v) == [kind |-> "Var", var |-> v]
IrConst(value, size) == [kind |-> "Const", value |-> value, size |-> size]
IrBinOp(op, lhs, rhs) == [kind |-> "BinOp", op |-> op, lhs |-> lhs, rhs |-> rhs]
IrUnOp(op, arg) == [kind |-> "UnOp", op |-> op, arg |-> arg]
IrCast(op, size, arg) == [kind |-> "Cast", op |-> op, size |-> size, arg |-> arg]
IrSubpiece(low_byte, size, arg) ==
    [kind |-> "Subpiece", low_byte |-> low_byte, size |-> size, arg |-> arg]

\* impl From<Variable> for IrExpression: a register or a constant; a
\* Variable that is neither (a bare RAM address) cannot be converted
VariableToIrExpression(var) ==
    IF IsSome(var.name) /\ IsNone(var.value)
    THEN IrExprVar(VariableToIrVariable(var))
    ELSE IF IsNone(var.name) /\ IsSome(var.value)
    THEN IrConst(Unwrap(var.value), var.size)
    ELSE Panic

\* Option<Variable>::unwrap().into()
UnwrapToIrExpression(input) ==
    IF IsNone(input) THEN Panic ELSE VariableToIrExpression(Unwrap(input))

CastMnemonics ==
    {"INT_ZEXT", "INT_SEXT", "INT2FLOAT", "FLOAT2FLOAT", "TRUNC", "POPCOUNT"}
UnOpMnemonics == {"INT_NEGATE", "BOOL_NEGATE"}

\* impl From<Expression> for IrExpression (the mnemonics without a size)
ExpressionToIrExpression(expr) ==
    IF expr.mnemonic = "COPY" THEN UnwrapToIrExpression(expr.input0)
    ELSE IF expr.mnemonic \in {"LOAD", "STORE", "SUBPIECE"} \cup CastMnemonics
    THEN Panic
    ELSE IF expr.mnemonic \in UnOpMnemonics
    THEN LET arg == UnwrapToIrExpression(expr.input0)
         IN  IF IsPanic(arg) THEN Panic ELSE IrUnOp(expr.mnemonic, arg)
    ELSE LET lhs == UnwrapToIrExpression(expr.input0)
             rhs == UnwrapToIrExpression(expr.input1)
         IN  IF IsPanic(lhs) \/ IsPanic(rhs) THEN Panic
             ELSE IrBinOp(expr.mnemonic, lhs, rhs)

----------------------------------------------------------------------------
(* impl From<Def> for IrDef                                                 *)

IrAssign(var, value) == [kind |-> "Assign", var |-> var, value |-> value]
IrLoad(var, address) == [kind |-> "Load", var |-> var, address |-> address]
IrStore(address, value) ==
    [kind |-> "Store", address |-> address, value |-> value]

UnwrapToIrVariable(lhs) ==
    IF IsNone(lhs) THEN Panic ELSE VariableToIrVariable(Unwrap(lhs))

DefToIrDef(def) ==
    LET m == def.rhs.mnemonic IN
    IF m = "LOAD"
    THEN LET var == UnwrapToIrVariable(def.lhs)
             address == UnwrapToIrExpression(def.rhs.input1)
         IN  IF IsPanic(var) \/ IsPanic(address) THEN Panic
             ELSE IrLoad(var, address)
    ELSE IF m = "STORE"
    THEN LET address == UnwrapToIrExpression(def.rhs.input1)
             value == UnwrapToIrExpression(def.rhs.input2)
         IN  IF IsPanic(address) \/ IsPanic(value) THEN Panic
             ELSE IrStore(address, value)
    ELSE IF m = "SUBPIECE"
    THEN LET var == UnwrapToIrVariable(def.lhs)
             arg == UnwrapToIrExpression(def.rhs.input0)
         IN  IF IsPanic(var) \/ IsPanic(arg) \/ IsNone(def.rhs.input1)
                \/ IsNone(Unwrap(def.rhs.input1).value)
             THEN Panic
             ELSE IrAssign(var,
                           IrSubpiece(Unwrap(Unwrap(def.rhs.input1).value),
                                      Unwrap(def.lhs).size, arg))
    ELSE IF m \in CastMnemonics
    THEN LET var == UnwrapToIrVariable(def.lhs)
             arg == UnwrapToIrExpression(def.rhs.input0)
         IN  IF IsPanic(var) \/ IsPanic(arg) THEN Panic
             ELSE IrAssign(var, IrCast(m, Unwrap(def.lhs).size, arg))
    ELSE IF IsNone(def.lhs) THEN Panic
    ELSE LET target_var == Unwrap(def.lhs)
             value == ExpressionToIrExpression(def.rhs)
         IN  IF IsPanic(value) THEN Panic
             ELSE IF IsSome(target_var.address)
             THEN IrStore(IrConst(Unwrap(target_var.address), target_var.size),
                          value)
             ELSE IF IsPanic(VariableToIrVariable(target_var)) THEN Panic
             ELSE IrAssign(VariableToIrVariable(target_var), value)

----------------------------------------------------------------------------
(* impl From<Jmp> for IrJmp                                                 *)

IsDirect(label) == IsSome(label) /\ Unwrap(label).kind = "Direct"
IsIndirect(label) == IsSome(label) /\ Unwrap(label).kind = "Indirect"

\* jmp.goto.unwrap() / call.target.unwrap() through unwrap_label_indirect
\* and into(): the target expression, or Panic
IndirectTarget(label) ==
    IF IsIndirect(label) THEN VariableToIrExpression(Unwrap(label).var)
    ELSE Panic

\* call.return_.map(unwrap_label_direct) panics on an Indirect label
ReturnPanics(call) == IsIndirect(call.return_)
ReturnTid(call) ==
    IF IsNone(call.return_) THEN None ELSE Some(Unwrap(call.return_).tid)

\* BRANCH that accepts an indirect label as an indirect branch
BranchToIrLenient(jmp) ==
    IF IsDirect(jmp.goto)
    THEN [kind |-> "Branch", target |-> Unwrap(jmp.goto).tid]
    ELSE IF IsIndirect(jmp.goto)
    THEN [kind |-> "BranchInd", target |-> IndirectTarget(jmp.goto)]
    ELSE Panic

BranchToIr(jmp) ==
    IF IsDirect(jmp.goto)
    THEN [kind |-> "Branch", target |-> Unwrap(jmp.goto).tid]
    ELSE Panic

CBranchToIr(jmp) ==
    IF IsDirect(jmp.goto) /\ IsSome(jmp.condition)
       /\ ~IsPanic(VariableToIrExpression(Unwrap(jmp.condition)))
    THEN [kind |-> "CBranch", target |-> Unwrap(jmp.goto).tid,
          condition |-> VariableToIrExpression(Unwrap(jmp.condition))]
    ELSE Panic

BranchIndToIr(jmp) ==
    IF IsPanic(IndirectTarget(jmp.goto)) THEN Panic
    ELSE [kind |-> "BranchInd", target |-> IndirectTarget(jmp.goto)]

ReturnToIr(jmp) ==
    IF IsPanic(IndirectTarget(jmp.goto)) THEN Panic
    ELSE [kind |-> "Return", target |-> IndirectTarget(jmp.goto)]

CallToIr(call) ==
    IF IsDirect(call.target) /\ ~ReturnPanics(call)
    THEN [kind |-> "Call", target |-> Unwrap(call.target).tid,
          return_ |-> ReturnTid(call)]
    ELSE Panic

CallIndToIr(call) ==
    IF ~IsPanic(IndirectTarget(call.target)) /\ ~ReturnPanics(call)
    THEN [kind |-> "CallInd", target |-> IndirectTarget(call.target),
          return_ |-> ReturnTid(call)]
    ELSE Panic

CallOtherToIr(call) ==
    IF IsSome(call.call_string) /\ ~ReturnPanics(call)
    THEN [kind |-> "CallOther", description |-> Unwrap(call.call_string),
          return_ |-> ReturnTid(call)]
    ELSE Panic

\* the match on jmp.mnemonic
JmpToIrJmp(jmp) ==
    IF jmp.mnemonic = "BRANCH" THEN BranchToIr(jmp)
    ELSE IF jmp.mnemonic = "CBRANCH" THEN CBranchToIr(jmp)
    ELSE IF jmp.mnemonic = "BRANCHIND" THEN BranchIndToIr(jmp)
    ELSE IF jmp.mnemonic = "RETURN" THEN ReturnToIr(jmp)
    ELSE IF IsNone(jmp.call) THEN Panic
    ELSE IF jmp.mnemonic = "CALL" THEN CallToIr(Unwrap(jmp.call))
    ELSE IF jmp.mnemonic = "CALLIND" THEN CallIndToIr(Unwrap(jmp.call))
    ELSE CallOtherToIr(Unwrap(jmp.call))

----------------------------------------------------------------------------
(* impl From<Blk> for IrBlk                                                 *)

\* the hints of the first jmp whose hint list is present and not empty
FindFirstNonEmptyHints(jmps) ==
    LET found == {i \in DOMAIN jmps :
                     /\ IsSome(jmps[i].term.target_hints)
                     /\ Unwrap(jmps[i].term.target_hints) # <<>>}
    IN  IF found = {} THEN <<>>
        ELSE Unwrap(jmps[CHOOSE i \in found : \A j \in found : i <= j]
                        .term.target_hints)

\* blk.jmps.iter().find_map(|j| j.term.target_hints.clone()).unwrap_or_default()
FindMapTargetHints(jmps) ==
    LET found == {i \in DOMAIN jmps : IsSome(jmps[i].term.target_hints)}
    IN  IF found = {} THEN <<>>
        ELSE Unwrap(jmps[CHOOSE i \in found : \A j \in found : i <= j]
                        .term.target_hints)

LiftDefs(defs) ==
    [i \in DOMAIN defs |-> Term(defs[i].tid, DefToIrDef(defs[i].term))]
LiftJmps(jmps) ==
    [i \in DOMAIN jmps |-> Term(jmps[i].tid, JmpToIrJmp(jmps[i].term))]

AnyPanic(terms) == \E i \in DOMAIN terms : IsPanic(terms[i].term)

BlkToIrBlk(blk) ==
    IF AnyPanic(LiftDefs(blk.defs)) \/ AnyPanic(LiftJmps(blk.jmps))
    THEN Panic
    ELSE [kind |-> "Blk",
          defs |-> LiftDefs(blk.defs),
          jmps |-> LiftJmps(blk.jmps),
          indirect_jmp_targets |-> FindMapTargetHints(blk.jmps)]

----------------------------------------------------------------------------
(* impl From<Term<Sub>> for Term<IrSub>                                     *)

Swap(s, i, j) == [s EXCEPT ![i] = s[j], ![j] = s[i]]

\* the indices of the blocks located at the address of the Sub
StartBlockIndices(sub) ==
    {i \in DOMAIN sub.term.blocks :
        sub.term.blocks[i].tid.address = sub.tid.address}

NeedsRepair(sub) ==
    /\ sub.term.blocks # <<>>
    /\ sub.tid.address # sub.term.blocks[1].tid.address

\* the fatal "Non-empty function without correct starting block"
RepairPanics(sub) == NeedsRepair(sub) /\ StartBlockIndices(sub) = {}

\* the repair without the swap
RepairedBlocksNoSwap(sub) == sub.term.blocks

RepairedBlocks(sub) ==
    IF NeedsRepair(sub) /\ StartBlockIndices(sub) # {}
    THEN Swap(sub.term.blocks, 1,
              CHOOSE i \in StartBlockIndices(sub) :
                  \A j \in StartBlockIndices(sub) : i <= j)
    ELSE sub.term.blocks

LiftBlocks(blocks) ==
    [i \in DOMAIN blocks |-> Term(blocks[i].tid, BlkToIrBlk(blocks[i].term))]

SubToIrSub(sub) ==
    IF RepairPanics(sub) \/ AnyPanic(LiftBlocks(RepairedBlocks(sub)))
    THEN Panic
    ELSE [kind |-> "Sub",
          tid |-> sub.tid,
          term |-> [name |-> sub.term.name,
                    blocks |-> LiftBlocks(RepairedBlocks(sub))]]

----------------------------------------------------------------------------
(* from_str_radix(_, 16).  A 64-bit value is its 16 hexadecimal digits,     *)
(* most significant first; a signed value is a sign and a magnitude.        *)

U64Digits == 16

HexDigitChars ==
    <<"0", "1", "2", "3", "4", "5", "6", "7", "8", "9",
      "a", "b", "c", "d", "e", "f">>
HexUpperChars == <<"A", "B", "C", "D", "E", "F">>

\* char::to_digit(16), or -1
ToDigit(c) ==
    IF \E i \in DOMAIN HexDigitChars : HexDigitChars[i] = c
    THEN (CHOOSE i \in DOMAIN HexDigitChars : HexDigitChars[i] = c) - 1
    ELSE IF \E i \in DOMAIN HexUpperChars : HexUpperChars[i] = c
    THEN (CHOOSE i \in DOMAIN HexUpperChars : HexUpperChars[i] = c) + 9
    ELSE -1

RECURSIVE StripZeros(_)
StripZeros(ds) ==
    IF ds # <<>> /\ Head(ds) = 0 THEN StripZeros(Tail(ds)) ELSE ds

PadDigits(ds) == [i \in 1..(U64Digits - Len(ds)) |-> 0] \o ds

\* a < b for two digit sequences of length U64Digits
RECURSIVE DigitsLess(_, _)
DigitsLess(a, b) ==
    IF a = <<>> THEN FALSE
    ELSE IF Head(a) # Head(b) THEN Head(a) < Head(b)
    ELSE DigitsLess(Tail(a), Tail(b))

ParseError == [ok |-> FALSE]

\* the digits of src as a magnitude below 2^64, or ParseError
ParseMagnitude(chars) ==
    IF chars = <<>> \/ \E i \in DOMAIN chars : ToDigit(chars[i]) = -1
    THEN ParseError
    ELSE LET ds == StripZeros([i \in DOMAIN chars |-> ToDigit(chars[i])])
         IN  IF Len(ds) > U64Digits THEN ParseError
             ELSE [ok |-> TRUE, digits |-> PadDigits(ds)]

\* u64::from_str_radix(src, 16): an optional "+", then digits only
u64_from_str_radix(src) ==
    IF src = <<>> THEN ParseError
    ELSE IF Head(src) = "+" THEN ParseMagnitude(Tail(src))
    ELSE ParseMagnitude(src)

MaxI64 == <<7>> \o [i \in 1..(U64Digits - 1) |-> 15]
MinI64Magnitude == <<8>> \o [i \in 1..(U64Digits - 1) |-> 0]

\* i64::from_str_radix(src, 16): an optional sign, then digits only
i64_from_str_radix(src) ==
    IF src = <<>> THEN ParseError
    ELSE LET negative == Head(src) = "-"
             mag == IF Head(src) \in {"+", "-"} THEN ParseMagnitude(Tail(src))
                    ELSE ParseMagnitude(src)
         IN  IF ~mag.ok THEN ParseError
             ELSE IF negative /\ DigitsLess(MinI64Magnitude, mag.digits)
             THEN ParseError
             ELSE IF ~negative /\ DigitsLess(MaxI64, mag.digits)
             THEN ParseError
             ELSE [ok |-> TRUE,
                   negative |-> negative /\ StripZeros(mag.digits) # <<>>,
                   digits |-> mag.digits]

\* str::trim_start_matches("0x") removes every leading repetition
RECURSIVE trim_start_matches_0x(_)
trim_start_matches_0x(chars) ==
    IF Len(chars) >= 2 /\ chars[1] = "0" /\ chars[2] = "x"
    THEN trim_start_matches_0x(SubSeq(chars, 3, Len(chars)))
    ELSE chars

\* a - b on digit sequences from digit i down, with the borrow so far
RECURSIVE SubFrom(_, _, _, _, _)
SubFrom(a, b, i, borrow, acc) ==
    IF i = 0 THEN [digits |-> acc, borrow |-> borrow]
    ELSE LET d == a[i] - b[i] - borrow
         IN  IF d < 0 THEN SubFrom(a, b, i - 1, 1, <<d + 16>> \o acc)
             ELSE SubFrom(a, b, i - 1, 0, <<d>> \o acc)

\* the u64 subtraction: with overflow checks (debug builds) an underflow
\* panics, without them (release builds) it wraps modulo 2^64
u64_sub(a, b, overflow_checks) ==
    LET r == SubFrom(a, b, U64Digits, 0, <<>>)
    IN  IF r.borrow = 1 /\ overflow_checks THEN Panic
        ELSE [kind |-> "u64", digits |-> r.digits]

----------------------------------------------------------------------------
(* impl From<ExternSymbol> for IrExternSymbol                               *)

ArgToIrArg(arg) ==
    IF IsSome(arg.var)
    THEN LET var == VariableToIrVariable(Unwrap(arg.var))
         IN  IF IsPanic(var) THEN Panic
             ELSE [kind |-> "Register", var |-> var]
    ELSE IF IsSome(arg.location)
    THEN LET expr == Unwrap(arg.location) IN
         IF expr.mnemonic # "LOAD" \/ IsNone(expr.input0)
            \/ IsNone(Unwrap(expr.input0).address)
         THEN Panic
         ELSE LET offset ==
                      i64_from_str_radix(
                          trim_start_matches_0x(
                              Unwrap(Unwrap(expr.input0).address)))
              IN  IF ~offset.ok THEN Panic
                  ELSE [kind |-> "Stack", offset |-> offset,
                        size |-> Unwrap(expr.input0).size]
    ELSE Panic

LiftArgs(arguments) == [i \in DOMAIN arguments |-> ArgToIrArg(arguments[i])]

\* the lifted arguments of one intent, each pushed to the front
ArgsOfIntentReversed(arguments, intent) ==
    LET Keep(i) == arguments[i].intent = intent
        idx == SelectSeq([i \in DOMAIN arguments |-> i], Keep)
    IN  [k \in DOMAIN idx |-> ArgToIrArg(arguments[idx[Len(idx) + 1 - k]])]

\* the lifted arguments of one intent, in the order of the input list
ArgsOfIntent(arguments, intent) ==
    LET Keep(i) == arguments[i].intent = intent
        idx == SelectSeq([i \in DOMAIN arguments |-> i], Keep)
    IN  [k \in DOMAIN idx |-> ArgToIrArg(arguments[idx[k]])]

ExternSymbolToIr(symbol) ==
    IF \E i \in DOMAIN symbol.arguments : IsPanic(LiftArgs(symbol.arguments)[i])
    THEN Panic
    ELSE [kind |-> "ExternSymbol",
          tid |-> symbol.tid,
          addresses |-> symbol.addresses,
          name |-> symbol.name,
          calling_convention |-> symbol.calling_convention,
          parameters |-> ArgsOfIntent(symbol.arguments, "INPUT"),
          return_values |-> ArgsOfIntent(symbol.arguments, "OUTPUT"),
          no_return |-> symbol.no_return]

----------------------------------------------------------------------------
(* Program::into_ir_program                                                 *)

LiftSubs(subs) == [i \in DOMAIN subs |-> SubToIrSub(subs[i])]
LiftSymbols(symbols) == [i \in DOMAIN symbols |-> ExternSymbolToIr(symbols[i])]

\* the offset with a leading "0x" of image_base trimmed before parsing
address_base_offset_trimmed(image_base, base_address, overflow_checks) ==
    IF ~u64_from_str_radix(trim_start_matches_0x(image_base)).ok THEN Panic
    ELSE u64_sub(u64_from_str_radix(trim_start_matches_0x(image_base)).digits,
                 base_address, overflow_checks)

address_base_offset(image_base, base_address, overflow_checks) ==
    IF ~u64_from_str_radix(image_base).ok THEN Panic
    ELSE u64_sub(u64_from_str_radix(image_base).digits, base_address,
                 overflow_checks)

into_ir_program(program, base_address, overflow_checks) ==
    IF \/ \E i \in DOMAIN program.subs : IsPanic(LiftSubs(program.subs)[i])
       \/ \E i \in DOMAIN program.extern_symbols :
              IsPanic(LiftSymbols(program.extern_symbols)[i])
       \/ IsPanic(address_base_offset(program.image_base, base_address,
                                      overflow_checks))
    THEN Panic
    ELSE [kind |-> "Program",
          subs |-> LiftSubs(program.subs),
          extern_symbols |-> LiftSymbols(program.extern_symbols),
          entry_points |-> program.entry_points,
          address_base_offset |->
              address_base_offset(program.image_base, base_address,
                                  overflow_checks).digits]

----------------------------------------------------------------------------
(* Sub-register canonicalization of one expression                          *)
(* (Expression::cast_sub_registers_to_base_register_subpieces)              *)

\* register_map: the last record of a register name is the one kept
RegisterKnown(table, name) == \E i \in DOMAIN table : table[i].register = name
RegisterEntry(table, name) ==
    table[CHOOSE i \in DOMAIN table :
              /\ table[i].register = name
              /\ \A j \in DOMAIN table : table[j].register = name => j <= i]

\* name is an alias of a byte range of another register
IsSubRegister(table, name) ==
    /\ RegisterKnown(table, name)
    /\ RegisterEntry(table, name).register
           # RegisterEntry(table, name).base_register

BaseVariable(table, name) ==
    LET base == RegisterEntry(table, name).base_register
    IN  IrVar(base, RegisterEntry(table, base).size, FALSE)

\* every read of an alias, at any depth, becomes a subpiece of its base
RECURSIVE replace_input_sub_register(_, _)
replace_input_sub_register(expr, table) ==
    IF expr.kind = "Var"
    THEN IF IsSubRegister(table, expr.var.name)
         THEN IrSubpiece(RegisterEntry(table, expr.var.name).lsb,
                         RegisterEntry(table, expr.var.name).size,
                         IrExprVar(BaseVariable(table, expr.var.name)))
         ELSE expr
    ELSE IF expr.kind = "BinOp"
    THEN IrBinOp(expr.op, replace_input_sub_register(expr.lhs, table),
                 replace_input_sub_register(expr.rhs, table))
    ELSE IF expr.kind \in {"UnOp", "Cast", "Subpiece"}
    THEN [expr EXCEPT !.arg = replace_input_sub_register(@, table)]
    ELSE expr

\* Term<Def>::check_for_zero_extension: the peeked def assigns the base
\* register the zero extension of the sub-register just written
check_for_zero_extension(peeked, output_name, output_sub_register) ==
    IF /\ peeked.term.kind = "Assign"
       /\ peeked.term.var.name = output_name
       /\ peeked.term.value.kind = "Cast"
       /\ peeked.term.value.op = "INT_ZEXT"
       /\ peeked.term.value.arg.kind = "Var"
       /\ peeked.term.value.arg.var.name = output_sub_register
    THEN Some(peeked.tid)
    ELSE None

\* the value written to the base register when only the bytes of the
\* sub-register change: the other bytes are subpieces of the old value
piece_two_expressions_together(value, table, sub_name) ==
    LET sub == RegisterEntry(table, sub_name)
        base == BaseVariable(table, sub_name)
        low == IrSubpiece(0, sub.lsb, IrExprVar(base))
        high == IrSubpiece(sub.lsb + sub.size,
                           base.size - (sub.lsb + sub.size), IrExprVar(base))
    IN  IF sub.lsb > 0 /\ sub.lsb + sub.size = base.size
        THEN IrBinOp("PIECE", value, low)
        ELSE IF sub.lsb > 0
        THEN IrBinOp("PIECE", IrBinOp("PIECE", high, value), low)
        ELSE IrBinOp("PIECE", high, value)

\* output: Option of the written variable; peeked: Option of the next def.
\* The result is the rewritten expression, the rewritten output and the
\* identifier of the peeked def when it became redundant.
cast_sub_registers_to_base_register_subpieces(expr, output, table, peeked) ==
    LET writes_sub == IsSome(output) /\ IsSubRegister(table, Unwrap(output).name)
        new_output ==
            IF writes_sub
            THEN Some(BaseVariable(table, Unwrap(output).name))
            ELSE output
        zero_tid ==
            IF writes_sub /\ IsSome(peeked)
            THEN check_for_zero_extension(
                     Unwrap(peeked), Unwrap(new_output).name,
                     Unwrap(output).name)
            ELSE None
        replaced == replace_input_sub_register(expr, table)
    IN  [expr |-> IF IsSome(zero_tid)
                  THEN IrCast("INT_ZEXT", Unwrap(new_output).size, replaced)
                  ELSE IF writes_sub
                  THEN piece_two_expressions_together(
                           replaced, table, Unwrap(output).name)
                  ELSE replaced,
         output |-> new_output,
         zero_tid |-> zero_tid]

----------------------------------------------------------------------------
(* Project::into_ir_project: the canonicalization loop over the lifted      *)
(* program                                                                  *)

\* the match on one def of the peekable iterator
CanonDef(def, peeked_def, register_map) ==
    IF def.term.kind = "Store"
    THEN [def |-> Term(def.tid,
                       IrStore(cast_sub_registers_to_base_register_subpieces(
                                   def.term.address, None, register_map,
                                   peeked_def).expr,
                               cast_sub_registers_to_base_register_subpieces(
                                   def.term.value, None, register_map,
                                   peeked_def).expr)),
          zero_tid |-> None]
    ELSE IF def.term.kind = "Load"
    THEN LET r == cast_sub_registers_to_base_register_subpieces(
                      def.term.address, Some(def.term.var), register_map,
                      peeked_def)
         IN  [def |-> Term(def.tid, IrLoad(Unwrap(r.output), r.expr)),
              zero_tid |-> r.zero_tid]
    ELSE LET r == cast_sub_registers_to_base_register_subpieces(
                      def.term.value, Some(def.term.var), register_map,
                      peeked_def)
         IN  [def |-> Term(def.tid, IrAssign(Unwrap(r.output), r.expr)),
              zero_tid |-> r.zero_tid]

CanonExpr(expr, register_map) ==
    cast_sub_registers_to_base_register_subpieces(expr, None, register_map,
                                                  None).expr

\* the match on one jmp without the arm of CBranch
CanonJmpNoCBranch(jmp, register_map) ==
    IF jmp.term.kind \in {"BranchInd", "CallInd", "Return"}
    THEN [jmp EXCEPT !.term.target = CanonExpr(@, register_map)]
    ELSE jmp

\* the match on one jmp
CanonJmp(jmp, register_map) ==
    IF jmp.term.kind \in {"BranchInd", "CallInd", "Return"}
    THEN [jmp EXCEPT !.term.target = CanonExpr(@, register_map)]
    ELSE IF jmp.term.kind = "CBranch"
    THEN [jmp EXCEPT !.term.condition = CanonExpr(@, register_map)]
    ELSE jmp

\* the defs of one block after the while loop, each with its mark
CanonDefs(defs, register_map) ==
    [i \in DOMAIN defs |->
        CanonDef(defs[i],
                 IF i < Len(defs) THEN Some(defs[i + 1]) ELSE None,
                 register_map)]

MarkedTids(results) ==
    {Unwrap(results[i].zero_tid) :
        i \in {j \in DOMAIN results : IsSome(results[j].zero_tid)}}

\* defs.retain(|def| !zero_extend_tids.contains(&def.tid))
Retain(defs, zero_extend_tids) ==
    SelectSeq(defs, LAMBDA def : def.tid \notin zero_extend_tids)

\* one iteration of the loop over the blocks of a sub; zero_extend_tids is
\* the set as the iteration finds it, the result carries it on
CanonBlk(blk, register_map, zero_extend_tids) ==
    LET results == CanonDefs(blk.term.defs, register_map)
        tids == zero_extend_tids \cup MarkedTids(results)
    IN  [blk |-> [blk EXCEPT
                     !.term.defs =
                         Retain([i \in DOMAIN results |-> results[i].def],
                                tids),
                     !.term.jmps =
                         [i \in DOMAIN @ |-> CanonJmp(@[i], register_map)]],
         zero_extend_tids |-> tids]

\* the loop over the blocks of one sub, from the set as the loop finds it
RECURSIVE CanonBlocks(_, _, _)
RECURSIVE CanonBlocksFrom(_, _, _)
PrependBlk(blk, rest) ==
    [blocks |-> <<blk>> \o rest.blocks,
     zero_extend_tids |-> rest.zero_extend_tids]
CanonBlocksFrom(first, blocks, register_map) ==
    PrependBlk(first.blk,
               CanonBlocks(blocks, register_map, first.zero_extend_tids))
CanonBlocks(blocks, register_map, zero_extend_tids) ==
    IF blocks = <<>>
    THEN [blocks |-> <<>>, zero_extend_tids |-> zero_extend_tids]
    ELSE CanonBlocksFrom(CanonBlk(Head(blocks), register_map,
                                  zero_extend_tids),
                         Tail(blocks), register_map)

\* the loop over the subs of the program; the set outlives each sub
RECURSIVE CanonSubs(_, _, _)
RECURSIVE CanonSubsFrom(_, _, _)
CanonSubsFrom(first, subs, register_map) ==
    <<[Head(subs) EXCEPT !.term.blocks = first.blocks]>>
    \o CanonSubs(Tail(subs), register_map, first.zero_extend_tids)
CanonSubs(subs, register_map, zero_extend_tids) ==
    IF subs = <<>> THEN <<>>
    ELSE CanonSubsFrom(CanonBlocks(Head(subs).term.blocks, register_map,
                                   zero_extend_tids),
                       subs, register_map)

CallingConventionToIr(cconv) ==
    [name |-> cconv.name,
     parameter_register |-> cconv.parameter_register,
     return_register |-> cconv.return_register,
     callee_saved_register |-> cconv.unaffected_register]

into_ir_project(p, base_address, overflow_checks) ==
    LET program == into_ir_program(p.program.term, base_address,
                                   overflow_checks)
    IN  IF IsPanic(program) \/ IsPanic(VariableToIrVariable(
                                           p.stack_pointer_register))
        THEN Panic
        ELSE [kind |-> "Project",
              program |->
                  Term(p.program.tid,
                       [program EXCEPT
                           !.subs = CanonSubs(@, p.register_properties, {})]),
              cpu_architecture |-> p.cpu_architecture,
              stack_pointer_register |->
                  VariableToIrVariable(p.stack_pointer_register),
              calling_conventions |->
                  [i \in DOMAIN p.register_calling_convention |->
                      CallingConventionToIr(p.register_calling_convention[i])]]

----------------------------------------------------------------------------
(* Project::normalize                                                       *)

\* LogMessage::new_error
new_error(text) == [text |-> text, level |-> "Error"]

StartingBlockMessage(sub) ==
    new_error("Starting block of function " \o sub.term.name \o " ("
              \o sub.tid.id \o ") not found.")

AddLoadsBlocks(blocks, generic_pointer_size) ==
    [i \in DOMAIN blocks |->
        Term(blocks[i].tid,
             add_load_defs_for_implicit_ram_access(blocks[i].term,
                                                   generic_pointer_size))]

\* the first loop of normalize over one sub
AddLoadsSub(sub, generic_pointer_size) ==
    [sub EXCEPT !.term.blocks = AddLoadsBlocks(@, generic_pointer_size)]

\* the condition without the search through the whole block list
NoStartingBlockFirstOnly(sub) ==
    /\ sub.term.blocks # <<>>
    /\ sub.tid.address # sub.term.blocks[1].tid.address

\* the condition of the second loop of normalize
NoStartingBlock(sub) ==
    /\ sub.term.blocks # <<>>
    /\ sub.tid.address # sub.term.blocks[1].tid.address
    /\ ~\E i \in DOMAIN sub.term.blocks :
          sub.term.blocks[i].tid.address = sub.tid.address

\* the dead Sub keeps its first block
RemoveDeadBlocksKeepFirst(sub) ==
    IF NoStartingBlock(sub)
    THEN [sub EXCEPT !.term.blocks = <<@[1]>>] ELSE sub

\* every Sub whose first block lies elsewhere is emptied
RemoveDeadBlocksUnlessFirst(sub) ==
    IF NoStartingBlockFirstOnly(sub)
    THEN [sub EXCEPT !.term.blocks = <<>>] ELSE sub

RemoveDeadBlocks(sub) ==
    IF NoStartingBlock(sub) THEN [sub EXCEPT !.term.blocks = <<>>] ELSE sub

DeadSubMessages(subs) ==
    LET dead == SelectSeq(subs, NoStartingBlock)
    IN  [i \in DOMAIN dead |-> StartingBlockMessage(dead[i])]

normalize(p) ==
    LET generic_pointer_size == p.stack_pointer_register.size
        loaded == [i \in DOMAIN p.program.term.subs |->
                      AddLoadsSub(p.program.term.subs[i], generic_pointer_size)]
    IN  IF \E i \in DOMAIN loaded : AnyPanic(loaded[i].term.blocks)
        THEN Panic
        ELSE [kind |-> "Normalized",
              project |->
                  [p EXCEPT !.program.term.subs =
                                [i \in DOMAIN loaded |->
                                    RemoveDeadBlocks(loaded[i])]],
              log_messages |-> DeadSubMessages(loaded)]

----------------------------------------------------------------------------
(* The parsed projects the runs start from                                  *)

MaxSubs == 2
MaxBlocks == 2

SeqsUpTo(S, n) == UNION {[1..k -> S] : k \in 0..n}

RegisterTable ==
    <<[register |-> "RAX", base_register |-> "RAX", lsb |-> 0, size |-> 8],
      [register |-> "EAX", base_register |-> "RAX", lsb |-> 0, size |-> 4],
      [register |-> "AH", base_register |-> "RAX", lsb |-> 1, size |-> 1],
      [register |-> "RBX", base_register |-> "RBX", lsb |-> 0, size |-> 8],
      [register |-> "RSP", base_register |-> "RSP", lsb |-> 0, size |-> 8]>>

RAX == RegVar("RAX", 8)
EAX == RegVar("EAX", 4)
AH == RegVar("AH", 1)
RBX == RegVar("RBX", 8)
RSP == RegVar("RSP", 8)
Unique == new_virtual("$U1", 8)
Ram == RamVar(<<"0", "x", "2", "0", "0", "0">>, 8)
ConstOne == new_const(<<"0", "x", "1">>, 8)

ZeroAddress == [i \in 1..U64Digits |-> 0]

MkProject(subs, extern_symbols, image_base) ==
    [program |->
         Term(Tid("prog", "0x0"),
              [subs |-> subs,
               extern_symbols |-> extern_symbols,
               entry_points |-> <<>>,
               image_base |-> image_base]),
     cpu_architecture |-> "x86_64",
     stack_pointer_register |-> RSP,
     register_properties |-> RegisterTable,
     register_calling_convention |->
         <<[name |-> "__stdcall",
            parameter_register |-> <<"RDI">>,
            return_register |-> <<"RAX">>,
            unaffected_register |-> <<"RBX">>,
            killed_by_call_register |-> <<"RAX">>]>>]

DefaultImageBase == <<"1", "0", "0", "0">>

\* --- functions whose blocks lie at varying addresses
Addresses == {"0x100", "0x200"}

EntryBlk(s, k, address) ==
    Term(Tid("blk_" \o ToString(s) \o "_" \o ToString(k), address),
         Blk(<<Term(Tid("instr_" \o ToString(s) \o "_" \o ToString(k),
                        address),
                    Def(Some(RBX), Expr("INT_ADD", Some(Ram), Some(RBX), None)))>>,
             <<Term(Tid("ret_" \o ToString(s) \o "_" \o ToString(k), address),
                    Jmp("RETURN", Some(Indirect(Unique)), None, None, None))>>))

EntrySub(s, address, block_addresses) ==
    Term(Tid("sub_" \o ToString(s), address),
         Sub("f" \o ToString(s),
             [k \in DOMAIN block_addresses |->
                 EntryBlk(s, k, block_addresses[k])]))

EntryShapes == Addresses \X SeqsUpTo(Addresses, MaxBlocks)

EntryProject(shapes) ==
    MkProject([s \in DOMAIN shapes |-> EntrySub(s, shapes[s][1], shapes[s][2])],
              <<>>, DefaultImageBase)

EntryInputs == SeqsUpTo(EntryShapes, MaxSubs) \ {<<>>}

\* --- one block whose defs and jmps have operands at fixed RAM addresses
MaxDefs == 2
MaxJmps == 2

Ram2 == RamVar(<<"0", "x", "3", "0", "0", "0">>, 4)

LoadDefShapes ==
    {None, Some(RBX), Some(Ram)} \X {Some(RBX), Some(Ram2)} \X {None, Some(Ram)}

LoadDef(k, shape) ==
    Term(Tid("instr_" \o ToString(k), "0x100"),
         Def(Some(RAX),
             Expr(IF IsNone(shape[1]) THEN "LOAD" ELSE "INT_ADD",
                  shape[1], shape[2], shape[3])))

BlkTid == Tid("blk_0x200", "0x200")

LoadJmpShapes ==
    {Jmp("BRANCH", Some(Direct(BlkTid)), None, None, None),
     Jmp("BRANCHIND", Some(Indirect(Ram)), None, None, None),
     Jmp("BRANCHIND", Some(Indirect(RBX)), None, None, None),
     Jmp("CALLIND", None, Some(Call(Some(Indirect(Ram2)), None, None)),
         None, None),
     Jmp("RETURN", Some(Indirect(Ram)), None, None, None)}

JmpTerms(jmps) ==
    [k \in DOMAIN jmps |-> Term(Tid("jmp_" \o ToString(k), "0x100"), jmps[k])]

OneBlockProject(defs, jmps) ==
    MkProject(<<Term(Tid("sub_1", "0x100"),
                     Sub("f1", <<Term(Tid("blk_1", "0x100"),
                                      Blk(defs, jmps))>>))>>,
              <<>>, DefaultImageBase)

LoadProject(shapes, jmps) ==
    OneBlockProject([k \in DOMAIN shapes |-> LoadDef(k, shapes[k])],
                    JmpTerms(jmps))

\* many defs with at most one jmp, or at most one def with many jmps
LoadInputs ==
    (SeqsUpTo(LoadDefShapes, MaxDefs) \X SeqsUpTo(LoadJmpShapes, 1))
    \cup (SeqsUpTo(LoadDefShapes, 1) \X SeqsUpTo(LoadJmpShapes, MaxJmps))

\* --- blocks that read and write sub-registers
CanonDefShapes ==
    {Def(Some(EAX), Expr("COPY", Some(ConstOne), None, None)),
     Def(Some(RAX), Expr("INT_ZEXT", Some(EAX), None, None)),
     Def(Some(RBX), Expr("INT_ADD", Some(EAX), Some(AH), None)),
     Def(Some(AH), Expr("LOAD", None, Some(EAX), None)),
     Def(None, Expr("STORE", None, Some(EAX), Some(AH)))}

CanonJmpShapes ==
    {Jmp("CBRANCH", Some(Direct(BlkTid)), None, Some(AH), None),
     Jmp("BRANCHIND", Some(Indirect(EAX)), None, None, None),
     Jmp("CALLIND", None, Some(Call(Some(Indirect(AH)), None, None)),
         None, None),
     Jmp("RETURN", Some(Indirect(EAX)), None, None, None),
     Jmp("CALL", None, Some(Call(Some(Direct(BlkTid)), None, None)),
         None, None)}

CanonDefTerms(defs) ==
    [k \in DOMAIN defs |-> Term(Tid("instr_" \o ToString(k), "0x100"), defs[k])]

CanonProject(defs, jmp) ==
    OneBlockProject(CanonDefTerms(defs), JmpTerms(<<jmp>>))

CanonInputs == SeqsUpTo(CanonDefShapes, MaxDefs) \X CanonJmpShapes

\* --- two blocks; one def of the second block may carry the identifier of
\* the second def of the first block.  Within a block the identifiers are
\* pairwise distinct.
MarkDefShapes ==
    {Def(Some(EAX), Expr("COPY", Some(ConstOne), None, None)),
     Def(Some(RAX), Expr("INT_ZEXT", Some(EAX), None, None)),
     Def(Some(RBX), Expr("COPY", Some(RAX), None, None))}

SecondBlkDefs(defs, shared) ==
    [k \in DOMAIN defs |->
        Term(IF k = shared THEN Tid("instr_2", "0x100")
             ELSE Tid("instr_b" \o ToString(k), "0x200"),
             defs[k])]

ReturnJmp == Jmp("RETURN", Some(Indirect(RBX)), None, None, None)

FirstBlk(defs) ==
    Term(Tid("blk_1", "0x100"), Blk(CanonDefTerms(defs), JmpTerms(<<ReturnJmp>>)))
SecondBlk(defs, shared) ==
    Term(Tid("blk_2", "0x200"),
         Blk(SecondBlkDefs(defs, shared), JmpTerms(<<ReturnJmp>>)))

\* the two blocks in one Sub, or each in a Sub of its own
MarkProject(defs1, defs2, shared, same_sub) ==
    MkProject(IF same_sub
              THEN <<Term(Tid("sub_1", "0x100"),
                          Sub("f1", <<FirstBlk(defs1),
                                      SecondBlk(defs2, shared)>>))>>
              ELSE <<Term(Tid("sub_1", "0x100"), Sub("f1", <<FirstBlk(defs1)>>)),
                     Term(Tid("sub_2", "0x200"),
                          Sub("f2", <<SecondBlk(defs2, shared)>>))>>,
              <<>>, DefaultImageBase)

MarkInputs ==
    {in \in SeqsUpTo(MarkDefShapes, MaxDefs) \X SeqsUpTo(MarkDefShapes, MaxDefs)
            \X (0..MaxDefs) \X BOOLEAN :
        in[3] <= Len(in[2])}

\* --- one block with one jmp of every combination of fields
LabelChoices == {None, Some(Direct(BlkTid)), Some(Indirect(RBX))}
CallChoices ==
    {None} \cup
    {Some(Call(target, return_, call_string)) :
        target \in LabelChoices, return_ \in LabelChoices,
        call_string \in {None, Some("syscall")}}
JmpFieldInputs ==
    {Jmp(mnemonic, goto, call, condition, None) :
        mnemonic \in JmpType, goto \in LabelChoices, call \in CallChoices,
        condition \in {None, Some(RBX)}}

JmpFieldProject(jmp) == OneBlockProject(<<>>, JmpTerms(<<jmp>>))

\* --- one block of direct branches with varying target hints
HintChoices == {None, Some(<<>>), Some(<<"0x300">>), Some(<<"0x400", "0x500">>)}
HintInputs == SeqsUpTo(HintChoices, MaxJmps)
HintProject(hints) ==
    OneBlockProject(<<>>,
                    JmpTerms([k \in DOMAIN hints |->
                                 Jmp("BRANCH", Some(Direct(BlkTid)), None, None,
                                     hints[k])]))

\* --- one extern symbol with varying arguments
MaxArgs == 3

StackLocation(mnemonic, address, size) ==
    Some(Expr(mnemonic, Some(RamVar(address, size)), None, None))
Arg(var, location, intent) ==
    [var |-> var, location |-> location, intent |-> intent]
ArgShapes ==
    {Arg(Some(RegVar("RDI", 8)), None, "INPUT"),
     Arg(Some(RegVar("RSI", 4)), None, "INPUT"),
     Arg(Some(RAX), None, "OUTPUT"),
     Arg(None, StackLocation("LOAD", <<"0", "x", "8">>, 2), "INPUT"),
     Arg(None, StackLocation("LOAD", <<"-", "1", "0">>, 1), "OUTPUT"),
     Arg(None, StackLocation("COPY", <<"0", "x", "8">>, 2), "INPUT"),
     Arg(None, StackLocation("LOAD", <<"0", "x", "-", "8">>, 2), "OUTPUT"),
     Arg(None, None, "INPUT")}
ArgInputs == SeqsUpTo(ArgShapes, MaxArgs)
ExternProject(arguments) ==
    MkProject(<<>>,
              <<[tid |-> Tid("sym_1", "0x900"),
                 addresses |-> <<"0x900">>,
                 name |-> "memcpy",
                 calling_convention |-> Some("__stdcall"),
                 arguments |-> arguments,
                 no_return |-> FALSE]>>,
              DefaultImageBase)

\* --- one block whose second def and whose jmp may carry an identifier
\* that ends in a suffix of the synthesized loads
SuffixDefIds == {"instr_2", "instr_1_load0", "instr_1_load1", "jmp_1_load"}
SuffixJmpIds == {"jmp_1", "instr_1_load0"}
SuffixJmpShapes ==
    {Jmp("BRANCHIND", Some(Indirect(Ram)), None, None, None),
     Jmp("BRANCHIND", Some(Indirect(RBX)), None, None, None)}
SuffixInputs == LoadDefShapes \X SuffixDefIds \X SuffixJmpIds \X SuffixJmpShapes
SuffixProject(shape, def_id, jmp_id, jmp) ==
    OneBlockProject(<<LoadDef(1, shape),
                      Term(Tid(def_id, "0x100"),
                           Def(Some(RBX), Expr("COPY", Some(RAX), None, None)))>>,
                    <<Term(Tid(jmp_id, "0x100"), jmp)>>)

\* --- image bases and base addresses
ImageBases ==
    {<<"1", "0", "0", "0">>,
     <<"0", "x", "1", "0", "0", "0">>,
     <<"4", "0", "1", "0", "0", "0">>,
     <<"0", "x", "4", "0", "1", "0", "0", "0">>,
     <<>>,
     <<"+", "1", "0", "0", "0">>,
     <<"-", "1", "0", "0", "0">>,
     <<"0", "0", "4", "0", "1", "0", "0", "0">>,
     <<"F", "F", "F", "F", "f", "f", "f", "f", "F", "F", "F", "F", "f", "f",
       "f", "f">>,
     <<"1", "0", "0", "0", "0", "0", "0", "0", "0", "0", "0", "0", "0", "0",
       "0", "0", "0">>}
BaseAddresses ==
    {ZeroAddress, PadDigits(<<1, 0, 0, 0>>), PadDigits(<<4, 0, 0, 0, 0, 0>>)}
ImageBaseProject(image_base) == MkProject(<<>>, <<>>, image_base)

----------------------------------------------------------------------------
(* The runs                                                                 *)

InitProject ==
    \/ \E shapes \in EntryInputs : parsed = EntryProject(shapes)
    \/ \E input \in LoadInputs : parsed = LoadProject(input[1], input[2])
    \/ \E input \in CanonInputs : parsed = CanonProject(input[1], input[2])
    \/ \E input \in MarkInputs :
          parsed = MarkProject(input[1], input[2], input[3], input[4])
    \/ \E jmp \in JmpFieldInputs : parsed = JmpFieldProject(jmp)
    \/ \E hints \in HintInputs : parsed = HintProject(hints)
    \/ \E arguments \in ArgInputs : parsed = ExternProject(arguments)
    \/ \E image_base \in ImageBases : parsed = ImageBaseProject(image_base)
    \/ \E input \in SuffixInputs :
          parsed = SuffixProject(input[1], input[2], input[3], input[4])

Init ==
    /\ InitProject
    /\ project = parsed
    /\ binary_base_address \in
          IF parsed.program.term.subs = <<>>
             /\ parsed.program.term.extern_symbols = <<>>
          THEN BaseAddresses ELSE {ZeroAddress}
    /\ log_messages = <<>>
    /\ ir_project = None
    /\ normalized = FALSE
    /\ pc = "parsed"

\* project.normalize()
Normalize ==
    /\ pc = "parsed"
    /\ IF IsPanic(normalize(project))
       THEN /\ pc' = "panicked"
            /\ UNCHANGED <<project, log_messages, normalized>>
       ELSE /\ project' = normalize(project).project
            /\ log_messages' = normalize(project).log_messages
            /\ normalized' = TRUE
            /\ pc' = "normalized"
    /\ UNCHANGED <<parsed, binary_base_address, ir_project>>

\* project.into_ir_project(binary_base_address), in a build with or
\* without overflow checks
IntoIrProject ==
    /\ pc \in {"parsed", "normalized"}
    /\ \E overflow_checks \in BOOLEAN :
          LET result == into_ir_project(project, binary_base_address,
                                        overflow_checks)
          IN  IF IsPanic(result)
              THEN /\ pc' = "panicked"
                   /\ UNCHANGED ir_project
              ELSE /\ pc' = "lifted"
                   /\ ir_project' = Some(result)
    /\ UNCHANGED <<parsed, project, binary_base_address, log_messages,
                   normalized>>

Next == Normalize \/ IntoIrProject

Spec == Init /\ [][Next]_vars

----------------------------------------------------------------------------
(* Properties                                                               *)

ParsedSubs == parsed.program.term.subs
NormalizedSubs == project.program.term.subs
LiftedSubs == Unwrap(ir_project).program.term.subs

\* the Sub has blocks, none of them at the address of the Sub
IsDead(sub) ==
    /\ sub.term.blocks # <<>>
    /\ \A k \in DOMAIN sub.term.blocks :
          sub.term.blocks[k].tid.address # sub.tid.address

\* C1: every Sub of the project produced by normalize followed by
\* into_ir_project has no blocks, or its first block lies at the address
\* of the identifier of the Sub.
C1_EntryBlockInvariant ==
    (pc = "lifted" /\ normalized) =>
        \A i \in DOMAIN LiftedSubs :
            \/ LiftedSubs[i].term.blocks = <<>>
            \/ LiftedSubs[i].term.blocks[1].tid.address
                   = LiftedSubs[i].tid.address

\* a lifted Sub whose entry block was not the first block of the input
C1_Witness ==
    /\ pc = "lifted" /\ normalized
    /\ \E i \in DOMAIN LiftedSubs :
          /\ LiftedSubs[i].term.blocks # <<>>
          /\ ParsedSubs[i].term.blocks[1].tid.address # ParsedSubs[i].tid.address

MessageNames(message, sub) ==
    message.text = "Starting block of function " \o sub.term.name \o " ("
                   \o sub.tid.id \o ") not found."

DeadLogging(level) ==
    normalized =>
        /\ \A i \in DOMAIN ParsedSubs :
              IsDead(ParsedSubs[i]) =>
                  /\ NormalizedSubs[i].term.blocks = <<>>
                  /\ Cardinality({m \in DOMAIN log_messages :
                                     MessageNames(log_messages[m],
                                                  ParsedSubs[i])}) = 1
                  /\ \A m \in DOMAIN log_messages :
                        MessageNames(log_messages[m], ParsedSubs[i]) =>
                            log_messages[m].level = level
        /\ Len(log_messages)
              = Cardinality({i \in DOMAIN ParsedSubs : IsDead(ParsedSubs[i])})

\* C2 as stated: normalize empties every Sub that has blocks but none at
\* its address, emits exactly one message naming it, of warning level, and
\* returns as many messages as there are such Subs.
C2_Original == DeadLogging("Warning")

\* C2 as amended: the same, the message being of error level.
C2_DeadFunctionLogging == DeadLogging("Error")

\* normalize has emptied a Sub and logged it
C2_Witness ==
    /\ normalized
    /\ \E i \in DOMAIN ParsedSubs :
          IsDead(ParsedSubs[i]) /\ NormalizedSubs[i].term.blocks = <<>>
    /\ log_messages # <<>>

\* the pairs <<i, k>> of the blocks that normalize kept
KeptBlocks ==
    UNION {{<<i, k>> : k \in DOMAIN NormalizedSubs[i].term.blocks} :
              i \in DOMAIN NormalizedSubs}
OldBlk(ik) == ParsedSubs[ik[1]].term.blocks[ik[2]].term
NewBlk(ik) == NormalizedSubs[ik[1]].term.blocks[ik[2]].term

SlotOf(expr, slot) ==
    IF slot = 0 THEN expr.input0 ELSE IF slot = 1 THEN expr.input1
    ELSE expr.input2
Slots == {0, 1, 2}
AddressedSlots(def) == {s \in Slots : HasAddress(SlotOf(def.term.rhs, s))}

\* var is written by a LOAD def of defs
FedByLoad(var, defs) ==
    \E q \in DOMAIN defs :
        /\ defs[q].term.rhs.mnemonic = "LOAD"
        /\ defs[q].term.lhs = Some(var)

\* the position in the new def list of the k-th def of the old list
RECURSIVE CleanedPos(_, _)
CleanedPos(old, k) ==
    IF k = 0 THEN 0
    ELSE CleanedPos(old, k - 1) + Cardinality(AddressedSlots(old[k])) + 1

JmpTargetVar(jmp) ==
    IF jmp.mnemonic = "BRANCHIND" THEN Unwrap(jmp.goto).var
    ELSE Unwrap(Unwrap(jmp.call).target).var

\* C3: after normalize has run add_load_defs_for_implicit_ram_access on a
\* block, no def of the block has an operand slot 0, 1 or 2 holding a
\* Variable with a fixed address, no BRANCHIND or CALLIND target is such a
\* Variable, and every operand that was one is now a temporary written by
\* a LOAD def of the block.
C3_ImplicitLoadElimination ==
    normalized =>
        \A ik \in KeptBlocks :
            /\ \A q \in DOMAIN NewBlk(ik).defs :
                  AddressedSlots(NewBlk(ik).defs[q]) = {}
            /\ \A k \in DOMAIN OldBlk(ik).defs :
                  \A s \in AddressedSlots(OldBlk(ik).defs[k]) :
                      LET cleaned == NewBlk(ik).defs[
                                         CleanedPos(OldBlk(ik).defs, k)]
                      IN  /\ IsSome(SlotOf(cleaned.term.rhs, s))
                          /\ Unwrap(SlotOf(cleaned.term.rhs, s)).is_virtual
                          /\ FedByLoad(Unwrap(SlotOf(cleaned.term.rhs, s)),
                                       NewBlk(ik).defs)
            /\ \A j \in DOMAIN NewBlk(ik).jmps :
                  NewBlk(ik).jmps[j].term.mnemonic \in {"BRANCHIND", "CALLIND"}
                  => /\ IsNone(JmpTargetVar(NewBlk(ik).jmps[j].term).address)
                     /\ IsSome(JmpTargetVar(OldBlk(ik).jmps[j].term).address)
                        => FedByLoad(JmpTargetVar(NewBlk(ik).jmps[j].term),
                                     NewBlk(ik).defs)

\* normalize rewrote a def with an addressed operand in slot 2 and an
\* indirect jump with an addressed target
C3_Witness ==
    /\ normalized
    /\ \E ik \in KeptBlocks :
          /\ \E k \in DOMAIN OldBlk(ik).defs :
                2 \in AddressedSlots(OldBlk(ik).defs[k])
          /\ \E j \in DOMAIN OldBlk(ik).jmps :
                /\ OldBlk(ik).jmps[j].term.mnemonic = "CALLIND"
                /\ IsSome(JmpTargetVar(OldBlk(ik).jmps[j].term).address)

LoadSuffix(s) == "_load" \o ToString(s)

\* C10: after add_load_defs_for_implicit_ram_access the def list holds the
\* original defs in their order, each immediately preceded by one LOAD def
\* per addressed operand slot, in slot order; the LOAD for slot s carries
\* the identifier of the def suffixed "_load" and s, the cleaned def reads
\* in slot s the temporary that LOAD writes, and no def between the two
\* writes that temporary.  The loads of the jumps follow the last def.
C10_LoadPlacementForDefs ==
    normalized =>
        \A ik \in KeptBlocks :
            LET old == OldBlk(ik).defs
                new == NewBlk(ik).defs
            IN  /\ CleanedPos(old, Len(old)) <= Len(new)
                /\ Len(new) - CleanedPos(old, Len(old))
                      = Cardinality({j \in DOMAIN OldBlk(ik).jmps :
                                       JmpNeedsLoad(OldBlk(ik).jmps[j].term)})
                /\ \A k \in DOMAIN old :
                      LET p == CleanedPos(old, k)
                          A == AddressedSlots(old[k])
                      IN  /\ new[p].tid = old[k].tid
                          /\ new[p].term.lhs = old[k].term.lhs
                          /\ new[p].term.rhs.mnemonic = old[k].term.rhs.mnemonic
                          /\ \A s \in Slots \ A :
                                SlotOf(new[p].term.rhs, s)
                                    = SlotOf(old[k].term.rhs, s)
                          /\ \A s \in A :
                                LET q == p - Cardinality({t \in A : t >= s})
                                IN  /\ new[q].tid.id
                                          = old[k].tid.id \o LoadSuffix(s)
                                    /\ new[q].tid.address = old[k].tid.address
                                    /\ new[q].term.rhs.mnemonic = "LOAD"
                                    /\ IsSome(new[q].term.lhs)
                                    /\ SlotOf(new[p].term.rhs, s)
                                          = new[q].term.lhs
                                    /\ \A r \in (q + 1)..(p - 1) :
                                          new[r].term.lhs # new[q].term.lhs

\* a def with two addressed operands after another def, both rewritten
C10_Witness ==
    /\ normalized
    /\ \E ik \in KeptBlocks :
          /\ Len(OldBlk(ik).defs) >= 2
          /\ Cardinality(AddressedSlots(OldBlk(ik).defs[2])) >= 2
          /\ Len(NewBlk(ik).defs) >= 4

\* the pairs <<i, k>> of the blocks of the lifted project
LiftedBlocks ==
    UNION {{<<i, k>> : k \in DOMAIN LiftedSubs[i].term.blocks} :
              i \in DOMAIN LiftedSubs}
LiftedBlk(ik) == LiftedSubs[ik[1]].term.blocks[ik[2]]
\* the block of the lifted project as into_ir_project received it
RawBlk(ik) ==
    CHOOSE b \in Range(NormalizedSubs[ik[1]].term.blocks) :
        b.tid = LiftedBlk(ik).tid

IsAlias(name) == IsSubRegister(parsed.register_properties, name)
BaseOf(name) == RegisterEntry(parsed.register_properties, name).base_register

\* expr references, at any depth, a Variable named like a sub-register
RECURSIVE MentionsAlias(_)
MentionsAlias(expr) ==
    IF expr.kind = "Var" THEN IsAlias(expr.var.name)
    ELSE IF expr.kind = "BinOp"
    THEN MentionsAlias(expr.lhs) \/ MentionsAlias(expr.rhs)
    ELSE IF expr.kind \in {"UnOp", "Cast", "Subpiece"}
    THEN MentionsAlias(expr.arg)
    ELSE FALSE

DefMentionsAlias(def) ==
    IF def.kind = "Assign"
    THEN IsAlias(def.var.name) \/ MentionsAlias(def.value)
    ELSE IF def.kind = "Load"
    THEN IsAlias(def.var.name) \/ MentionsAlias(def.address)
    ELSE MentionsAlias(def.address) \/ MentionsAlias(def.value)

\* the expression of a lifted jmp, if it has one
JmpExprs(jmp) ==
    IF jmp.kind = "CBranch" THEN {jmp.condition}
    ELSE IF jmp.kind \in {"BranchInd", "CallInd", "Return"} THEN {jmp.target}
    ELSE {}

\* the Variable of a P-Code jmp that lifting turns into an expression
RawJmpVars(jmp) ==
    IF jmp.mnemonic = "CBRANCH" THEN {Unwrap(jmp.condition)}
    ELSE IF jmp.mnemonic \in {"BRANCHIND", "RETURN"}
    THEN {Unwrap(jmp.goto).var}
    ELSE IF jmp.mnemonic = "CALLIND"
    THEN {Unwrap(Unwrap(jmp.call).target).var}
    ELSE {}

IsSubpieceOfBase(expr, name) ==
    /\ expr.kind = "Subpiece"
    /\ expr.arg.kind = "Var"
    /\ expr.arg.var.name = BaseOf(name)

\* C4: after into_ir_project no expression of a lifted def (value, address
\* or target) and of a lifted jmp (condition or indirect target) references,
\* at any depth, a Variable named like a sub-register of the register
\* table; a jump operand that was one is a subpiece of the base register.
C4_AliasElimination ==
    pc = "lifted" =>
        \A ik \in LiftedBlocks :
            /\ \A d \in DOMAIN LiftedBlk(ik).term.defs :
                  ~DefMentionsAlias(LiftedBlk(ik).term.defs[d].term)
            /\ \A j \in DOMAIN LiftedBlk(ik).term.jmps :
                  /\ \A e \in JmpExprs(LiftedBlk(ik).term.jmps[j].term) :
                        ~MentionsAlias(e)
                  /\ \A v \in RawJmpVars(RawBlk(ik).term.jmps[j].term) :
                        (IsSome(v.name) /\ IsAlias(Unwrap(v.name))) =>
                            \A e \in JmpExprs(LiftedBlk(ik).term.jmps[j].term) :
                                IsSubpieceOfBase(e, Unwrap(v.name))

\* a lifted block whose P-Code read a sub-register in a def and in the
\* condition of a conditional branch
C4_Witness ==
    /\ pc = "lifted"
    /\ \E ik \in LiftedBlocks :
          /\ \E j \in DOMAIN RawBlk(ik).term.jmps :
                /\ RawBlk(ik).term.jmps[j].term.mnemonic = "CBRANCH"
                /\ Unwrap(RawBlk(ik).term.jmps[j].term.condition) = AH
          /\ \E d \in DOMAIN RawBlk(ik).term.defs :
                /\ RawBlk(ik).term.defs[d].term.rhs.mnemonic = "INT_ADD"
                /\ RawBlk(ik).term.defs[d].term.rhs.input0 = Some(EAX)
          /\ LiftedBlk(ik).term.defs # <<>>

\* the def writes a sub-register
WritesAlias(def) ==
    /\ IsSome(def.term.lhs)
    /\ IsSome(Unwrap(def.term.lhs).name)
    /\ IsAlias(Unwrap(Unwrap(def.term.lhs).name))

\* next assigns the base register of the sub-register that def writes the
\* zero extension of that sub-register
IsZeroExtendOf(next, def) ==
    /\ next.term.rhs.mnemonic = "INT_ZEXT"
    /\ IsSome(next.term.lhs)
    /\ Unwrap(next.term.lhs).name
          = Some(BaseOf(Unwrap(Unwrap(def.term.lhs).name)))
    /\ IsSome(next.term.rhs.input0)
    /\ Unwrap(next.term.rhs.input0).name = Unwrap(def.term.lhs).name

\* the positions n of defs such that defs[n] writes a sub-register and
\* defs[n + 1] is its zero extension
PatternAt(defs) ==
    {n \in 1..(Len(defs) - 1) :
        WritesAlias(defs[n]) /\ IsZeroExtendOf(defs[n + 1], defs[n])}

\* defs without the zero extensions of the pattern
WithoutZeroExtends(defs) ==
    LET keep == SelectSeq([n \in DOMAIN defs |-> n],
                          LAMBDA n : (n - 1) \notin PatternAt(defs))
    IN  [m \in DOMAIN keep |-> defs[keep[m]]]

ZeroExtendRemoval(ik) ==
    LET old == RawBlk(ik).term.defs
        new == LiftedBlk(ik).term.defs
        expected == WithoutZeroExtends(old)
    IN  PatternAt(old) # {} =>
            /\ Len(new) = Len(expected)
            /\ \A m \in DOMAIN expected :
                  /\ new[m].tid = expected[m].tid
                  /\ (WritesAlias(expected[m])
                      /\ \E n \in PatternAt(old) : old[n] = expected[m])
                     => new[m].term.var.name
                          = BaseOf(Unwrap(Unwrap(expected[m].term.lhs).name))

\* C5: in a block where a def writing sub-register R is immediately
\* followed by a def assigning base(R) the zero extension of R, after
\* into_ir_project the zero extension is gone, the first def writes
\* base(R), and all other defs of the block are present in their order.
C5_RedundantZeroExtendRemoval ==
    pc = "lifted" => \A ik \in LiftedBlocks : ZeroExtendRemoval(ik)

\* the identifiers of all defs handed to into_ir_project
AllDefTids ==
    UNION {{<<i, k, d>> : d \in DOMAIN NormalizedSubs[i].term.blocks[k].term.defs} :
              <<i, k>> \in KeptBlocks}
DefTidsDistinct ==
    \A x, y \in AllDefTids :
        x # y => NormalizedSubs[x[1]].term.blocks[x[2]].term.defs[x[3]].tid
                   # NormalizedSubs[y[1]].term.blocks[y[2]].term.defs[y[3]].tid

\* C5 restricted to projects whose def identifiers are distinct project-wide
C5_WithDistinctTids ==
    (pc = "lifted" /\ DefTidsDistinct) =>
        \A ik \in LiftedBlocks : ZeroExtendRemoval(ik)

ParsedSymbols == parsed.program.term.extern_symbols
LiftedSymbols == Unwrap(ir_project).program.term.extern_symbols

\* the arguments of one intent, in the order of the list
OfIntent(arguments, intent) ==
    SelectSeq(arguments, LAMBDA arg : arg.intent = intent)

\* the lifted argument denotes the register or stack slot of arg
LiftedFrom(ir_arg, arg) ==
    IF IsSome(arg.var)
    THEN /\ ir_arg.kind = "Register"
         /\ ir_arg.var.name = Unwrap(Unwrap(arg.var).name)
         /\ ir_arg.var.size = Unwrap(arg.var).size
    ELSE /\ ir_arg.kind = "Stack"
         /\ ir_arg.size = Unwrap(Unwrap(arg.location).input0).size

\* C6: a lifted ExternSymbol has as many parameters as its argument list
\* has INPUT Args and as many return values as it has OUTPUT Args, each
\* group in the order of the argument list.
C6_ArgumentPartition ==
    pc = "lifted" =>
        \A i \in DOMAIN ParsedSymbols :
            LET inputs == OfIntent(ParsedSymbols[i].arguments, "INPUT")
                outputs == OfIntent(ParsedSymbols[i].arguments, "OUTPUT")
            IN  /\ Len(LiftedSymbols[i].parameters) = Len(inputs)
                /\ Len(LiftedSymbols[i].return_values) = Len(outputs)
                /\ \A k \in DOMAIN inputs :
                      LiftedFrom(LiftedSymbols[i].parameters[k], inputs[k])
                /\ \A k \in DOMAIN outputs :
                      LiftedFrom(LiftedSymbols[i].return_values[k], outputs[k])

\* a lifted symbol with two different parameters and a return value
C6_Witness ==
    /\ pc = "lifted"
    /\ \E i \in DOMAIN ParsedSymbols :
          /\ Len(LiftedSymbols[i].parameters) = 2
          /\ LiftedSymbols[i].parameters[1] # LiftedSymbols[i].parameters[2]
          /\ Len(LiftedSymbols[i].return_values) = 1

\* the project consists of the image base alone
OnlyImageBase ==
    /\ parsed.program.term.subs = <<>>
    /\ parsed.program.term.extern_symbols = <<>>
ImageBaseIs(chars, base_digits) ==
    /\ OnlyImageBase
    /\ parsed.program.term.image_base = chars
    /\ binary_base_address = PadDigits(base_digits)
LiftedOffset == Unwrap(ir_project).program.term.address_base_offset
Offset1000 == PadDigits(<<1, 0, 0, 0>>)

\* a + b modulo 2^64 on digit sequences, from digit i down
RECURSIVE AddFrom(_, _, _, _, _)
AddFrom(a, b, i, carry, acc) ==
    IF i = 0 THEN acc
    ELSE AddFrom(a, b, i - 1, (a[i] + b[i] + carry) \div 16,
                 <<(a[i] + b[i] + carry) % 16>> \o acc)

\* the offset is the image base minus the base address modulo 2^64
OffsetIsDifference ==
    (pc = "lifted" /\ OnlyImageBase) =>
        /\ u64_from_str_radix(parsed.program.term.image_base).ok
        /\ AddFrom(LiftedOffset, binary_base_address, U64Digits, 0, <<>>)
              = u64_from_str_radix(parsed.program.term.image_base).digits

\* C7 as stated: image_base "0x1000" with base address 0 and image_base
\* "0x401000" with base address 0x400000 convert without a fatal error and
\* give the offset 0x1000.
C7_Original ==
    (\/ ImageBaseIs(<<"0", "x", "1", "0", "0", "0">>, <<>>)
     \/ ImageBaseIs(<<"0", "x", "4", "0", "1", "0", "0", "0">>,
                    <<4, 0, 0, 0, 0, 0>>))
    => /\ pc # "panicked"
       /\ pc = "lifted" => LiftedOffset = Offset1000

\* C7 as amended: the offset is from_str_radix(image_base, 16) minus the
\* base address as an unsigned 64-bit value, image_base being hexadecimal
\* digits without a "0x" prefix: "1000" with base address 0 and "401000"
\* with base address 0x400000 convert without a fatal error and give
\* 0x1000; an image_base that starts with "0x" fails the conversion.
C7_ImageBaseOffset ==
    /\ OffsetIsDifference
    /\ (\/ ImageBaseIs(<<"1", "0", "0", "0">>, <<>>)
        \/ ImageBaseIs(<<"4", "0", "1", "0", "0", "0">>, <<4, 0, 0, 0, 0, 0>>))
       => /\ pc # "panicked"
          /\ pc = "lifted" => LiftedOffset = Offset1000
    /\ (/\ Len(parsed.program.term.image_base) >= 2
        /\ SubSeq(parsed.program.term.image_base, 1, 2) = <<"0", "x">>)
       => pc # "lifted"

\* image_base "401000" lifted with base address 0x400000
C7_Witness ==
    /\ pc = "lifted"
    /\ ImageBaseIs(<<"4", "0", "1", "0", "0", "0">>, <<4, 0, 0, 0, 0, 0>>)
    /\ LiftedOffset = Offset1000

\* the jmps of all blocks handed to into_ir_project, and as parsed
JmpsOf(subs) ==
    UNION {UNION {{b.term.jmps[j].term : j \in DOMAIN b.term.jmps} :
                     b \in Range(subs[i].term.blocks)} :
              i \in DOMAIN subs}

CallMnemonics == {"CALL", "CALLIND", "CALLOTHER"}

\* the fields present do not match the mnemonic
FieldMismatch(jmp) ==
    \/ jmp.mnemonic \in CallMnemonics /\ IsNone(jmp.call)
    \/ jmp.mnemonic \in {"BRANCH", "CBRANCH"} /\ IsIndirect(jmp.goto)
    \/ /\ jmp.mnemonic = "CALL" /\ IsSome(jmp.call)
       /\ \/ IsIndirect(Unwrap(jmp.call).target)
          \/ IsIndirect(Unwrap(jmp.call).return_)
    \/ jmp.mnemonic \in {"BRANCHIND", "RETURN"} /\ IsDirect(jmp.goto)
    \/ /\ jmp.mnemonic = "CALLIND" /\ IsSome(jmp.call)
       /\ IsDirect(Unwrap(jmp.call).target)

\* C8: converting a Jmp whose fields do not match its mnemonic (a call
\* without Call descriptor, an indirect label where a direct one is
\* required, a direct label where an indirect one is required) fails
\* fatally; no project with such a Jmp is lifted.
C8_FatalPathCoverage ==
    /\ \A jmp \in JmpsOf(ParsedSubs) :
          FieldMismatch(jmp) => IsPanic(JmpToIrJmp(jmp))
    /\ pc = "lifted" =>
          \A jmp \in JmpsOf(NormalizedSubs) : ~FieldMismatch(jmp)

\* the conversion of a normalized project with a BRANCH to an indirect
\* label has failed
C8_Witness ==
    /\ pc = "panicked"
    /\ normalized
    /\ \E jmp \in JmpsOf(NormalizedSubs) :
          jmp.mnemonic = "BRANCH" /\ IsIndirect(jmp.goto)

\* the positions of the jmps that satisfy Test, lowest first
FirstWith(jmps, Test(_)) ==
    LET found == {j \in DOMAIN jmps : Test(jmps[j].term)}
    IN  IF found = {} THEN 0
        ELSE CHOOSE j \in found : \A k \in found : j <= k

HintsFrom(ik, Test(_)) ==
    LET first == FirstWith(RawBlk(ik).term.jmps, Test)
    IN  LiftedBlk(ik).term.indirect_jmp_targets
          = IF first = 0 THEN <<>>
            ELSE Unwrap(RawBlk(ik).term.jmps[first].term.target_hints)

HasHints(jmp) == IsSome(jmp.target_hints)
HasNonEmptyHints(jmp) ==
    IsSome(jmp.target_hints) /\ Unwrap(jmp.target_hints) # <<>>

\* C9 as stated: the hints of a lifted block are those of its first Jmp
\* that carries a non-empty hint list, and empty if there is none.
C9_Original ==
    pc = "lifted" =>
        \A ik \in LiftedBlocks : HintsFrom(ik, HasNonEmptyHints)

\* C9 as amended: the hints of a lifted block are those of its first Jmp
\* that carries a hint list, empty or not, and empty if no Jmp carries
\* one; a present but empty list before a non-empty one gives no hints.
C9_BlockHintExtraction ==
    pc = "lifted" => \A ik \in LiftedBlocks : HintsFrom(ik, HasHints)

\* a lifted block whose first jmp has an empty hint list and whose second
\* jmp has hints
C9_Witness ==
    /\ pc = "lifted"
    /\ \E ik \in LiftedBlocks :
          /\ Len(RawBlk(ik).term.jmps) >= 2
          /\ RawBlk(ik).term.jmps[1].term.target_hints = Some(<<>>)
          /\ HasNonEmptyHints(RawBlk(ik).term.jmps[2].term)
          /\ LiftedBlk(ik).term.indirect_jmp_targets = <<>>

\* the jumps of a block for which the pass synthesizes a load
LoadingJmps(blk) ==
    {j \in DOMAIN blk.jmps : JmpNeedsLoad(blk.jmps[j].term)}

\* the position in the new def list of the load of the j-th jump
JmpLoadPos(old, j) ==
    CleanedPos(old.defs, Len(old.defs))
    + Cardinality({i \in LoadingJmps(old) : i <= j})

JmpLoadPlacement(old, new) ==
    /\ Len(new.jmps) = Len(old.jmps)
    /\ Len(new.defs)
          = CleanedPos(old.defs, Len(old.defs))
            + Cardinality(LoadingJmps(old))
    /\ \A j \in DOMAIN old.jmps :
          IF j \in LoadingJmps(old)
          THEN LET load == new.defs[JmpLoadPos(old, j)]
                   target == JmpTargetVar(old.jmps[j].term)
               IN  /\ load.tid.id = old.jmps[j].tid.id \o "_load"
                   /\ load.tid.address = old.jmps[j].tid.address
                   /\ load.term.rhs.mnemonic = "LOAD"
                   /\ IsSome(load.term.rhs.input1)
                   /\ Unwrap(load.term.rhs.input1).value = target.address
                   /\ new.jmps[j].tid = old.jmps[j].tid
                   /\ new.jmps[j].term.mnemonic = old.jmps[j].term.mnemonic
                   /\ load.term.lhs
                         = Some(JmpTargetVar(new.jmps[j].term))
                   /\ JmpTargetVar(new.jmps[j].term).is_virtual
                   /\ IsNone(JmpTargetVar(new.jmps[j].term).address)
                   /\ \A q \in (JmpLoadPos(old, j) + 1)..Len(new.defs) :
                         new.defs[q].term.lhs # load.term.lhs
          ELSE new.jmps[j] = old.jmps[j]

\* C11: for every BRANCHIND or CALLIND Jmp whose target Variable has a
\* fixed address, add_load_defs_for_implicit_ram_access appends one LOAD
\* def after all rewritten defs of the block, carrying the identifier of
\* the jump suffixed "_load", and the jump targets the temporary that LOAD
\* writes; every other jump is unchanged and adds no def; no LOAD appended
\* later writes the temporary a jump targets.
C11_LoadPlacementForJumps ==
    normalized =>
        \A ik \in KeptBlocks : JmpLoadPlacement(OldBlk(ik), NewBlk(ik))

\* a block with two indirect jumps that both got a load, after a def that
\* got one as well, next to none
C11_Witness ==
    /\ normalized
    /\ \E ik \in KeptBlocks :
          /\ Cardinality(LoadingJmps(OldBlk(ik))) = 2
          /\ \E k \in DOMAIN OldBlk(ik).defs :
                AddressedSlots(OldBlk(ik).defs[k]) # {}

\* a block with a RETURN to a fixed address and an indirect jump through
\* a register, both left as they were
C11_WitnessUnchanged ==
    /\ normalized
    /\ \E ik \in KeptBlocks :
          /\ LoadingJmps(OldBlk(ik)) = {}
          /\ \E j \in DOMAIN OldBlk(ik).jmps :
                /\ OldBlk(ik).jmps[j].term.mnemonic = "RETURN"
                /\ HasAddress(Some(Unwrap(OldBlk(ik).jmps[j].term.goto).var))

\* lifting the subs of p in order reaches the panic "Non-empty function
\* without correct starting block": some Sub fails the repair and every
\* Sub before it was lifted
StartingBlockPanicReached(p) ==
    \E i \in DOMAIN p.program.term.subs :
        /\ RepairPanics(p.program.term.subs[i])
        /\ \A j \in 1..(i - 1) : ~IsPanic(SubToIrSub(p.program.term.subs[j]))

\* C12: once normalize has run, into_ir_project does not reach the fatal
\* "Non-empty function without correct starting block" for any Sub, and
\* every Sub that still has blocks has one at the address of its
\* identifier.
C12_NoStartingBlockPanicAfterNormalize ==
    normalized =>
        /\ ~StartingBlockPanicReached(project)
        /\ \A i \in DOMAIN NormalizedSubs :
              NormalizedSubs[i].term.blocks # <<>>
              => StartBlockIndices(NormalizedSubs[i]) # {}

\* a project with a Sub without starting block, normalized and then lifted
C12_Witness ==
    /\ normalized
    /\ pc = "lifted"
    /\ \E i \in DOMAIN ParsedSubs : RepairPanics(ParsedSubs[i])
    /\ \E i \in DOMAIN NormalizedSubs : NormalizedSubs[i].term.blocks # <<>>

\* lifting without normalize ended in the fatal path
C12_PanicWithoutNormalize ==
    /\ ~normalized
    /\ pc = "panicked"
    /\ StartingBlockPanicReached(project)

\* the block as the canonicalization of that block alone leaves it: lifted
\* and canonicalized with no mark made outside of it
CanonAlone(ik) ==
    CanonBlk(Term(RawBlk(ik).tid, BlkToIrBlk(RawBlk(ik).term)),
             project.register_properties, {}).blk

\* the tids marked while canonicalizing the block itself
OwnMarks(ik) ==
    CanonBlk(Term(RawBlk(ik).tid, BlkToIrBlk(RawBlk(ik).term)),
             project.register_properties, {}).zero_extend_tids

\* C13: into_ir_project removes a def from a block only if the def was
\* marked while that same block was canonicalized; every lifted block is
\* what the canonicalization of that block alone gives, whatever blocks
\* and Subs were processed before it.
C13_DeletionMarksLocal ==
    pc = "lifted" =>
        \A ik \in LiftedBlocks :
            /\ LiftedBlk(ik) = CanonAlone(ik)
            /\ \A d \in DOMAIN RawBlk(ik).term.defs :
                  RawBlk(ik).term.defs[d].tid \notin OwnMarks(ik)
                  => \E q \in DOMAIN LiftedBlk(ik).term.defs :
                        LiftedBlk(ik).term.defs[q].tid
                            = RawBlk(ik).term.defs[d].tid

\* C13 for projects whose def identifiers are distinct project-wide
C13_WithDistinctTids ==
    (pc = "lifted" /\ DefTidsDistinct) =>
        \A ik \in LiftedBlocks : LiftedBlk(ik) = CanonAlone(ik)

\* the i-th Sub as the first loop of normalize hands it to the entry-block
\* step
BeforeEntryStep(i) ==
    AddLoadsSub(ParsedSubs[i], parsed.stack_pointer_register.size)

\* the three cases in which the entry-block step has nothing to do
HasNoBlocks(sub) == sub.term.blocks = <<>>
FirstBlockAtAddress(sub) ==
    /\ sub.term.blocks # <<>>
    /\ sub.term.blocks[1].tid.address = sub.tid.address
SomeBlockAtAddress(sub) ==
    \E k \in DOMAIN sub.term.blocks :
        sub.term.blocks[k].tid.address = sub.tid.address

\* C14: the entry-block step of normalize leaves a Sub as it found it and
\* logs nothing about it when the Sub has no blocks, or its first block
\* lies at its address, or any block of it lies at its address; a Sub that
\* is emptied keeps its identifier and name, and no other Sub changes with
\* it.
C14_EntryStepFrame ==
    normalized =>
        /\ Len(NormalizedSubs) = Len(ParsedSubs)
        /\ \A i \in DOMAIN ParsedSubs :
              /\ NormalizedSubs[i].tid = ParsedSubs[i].tid
              /\ NormalizedSubs[i].term.name = ParsedSubs[i].term.name
              /\ (\/ HasNoBlocks(ParsedSubs[i])
                  \/ FirstBlockAtAddress(ParsedSubs[i])
                  \/ SomeBlockAtAddress(ParsedSubs[i]))
                 => /\ NormalizedSubs[i] = BeforeEntryStep(i)
                    /\ [k \in DOMAIN NormalizedSubs[i].term.blocks |->
                           NormalizedSubs[i].term.blocks[k].tid]
                       = [k \in DOMAIN ParsedSubs[i].term.blocks |->
                             ParsedSubs[i].term.blocks[k].tid]
                    /\ \A m \in DOMAIN log_messages :
                          ~MessageNames(log_messages[m], ParsedSubs[i])

\* normalize emptied one Sub next to a Sub whose entry block is its second
\* block, which it left alone
C14_Witness ==
    /\ normalized
    /\ \E i, j \in DOMAIN ParsedSubs :
          /\ i # j
          /\ IsDead(ParsedSubs[i])
          /\ NormalizedSubs[i].term.blocks = <<>>
          /\ ~FirstBlockAtAddress(ParsedSubs[j])
          /\ SomeBlockAtAddress(ParsedSubs[j])
          /\ Len(NormalizedSubs[j].term.blocks) = 2

\* the identifiers of the defs and jmps of a block, by kind and position
BlkTids(blk) ==
    [x \in ({"def"} \X DOMAIN blk.defs) \cup ({"jmp"} \X DOMAIN blk.jmps) |->
        IF x[1] = "def" THEN blk.defs[x[2]].tid ELSE blk.jmps[x[2]].tid]
TidsPairwiseDistinct(blk) ==
    \A x, y \in DOMAIN BlkTids(blk) :
        x # y => BlkTids(blk)[x] # BlkTids(blk)[y]

\* C15: when the def and jmp identifiers of a block are pairwise distinct
\* before add_load_defs_for_implicit_ram_access, all identifiers of the
\* defs (synthesized loads included) and jmps of the block are pairwise
\* distinct after it.
C15_SynthesizedTidsDistinct ==
    normalized =>
        \A ik \in KeptBlocks :
            TidsPairwiseDistinct(OldBlk(ik)) => TidsPairwiseDistinct(NewBlk(ik))

\* an identifier that ends like a synthesized one
EndsWithLoadSuffix(id) ==
    \E base \in {"instr_1", "instr_2", "jmp_1", "jmp_2"} :
        \E suffix \in {"_load0", "_load1", "_load2", "_load"} :
            id = base \o suffix

\* C15 for blocks none of whose identifiers ends like a synthesized one
C15_WithUnsuffixedTids ==
    normalized =>
        \A ik \in KeptBlocks :
            (/\ TidsPairwiseDistinct(OldBlk(ik))
             /\ \A x \in DOMAIN BlkTids(OldBlk(ik)) :
                   ~EndsWithLoadSuffix(BlkTids(OldBlk(ik))[x].id))
            => TidsPairwiseDistinct(NewBlk(ik))

\* a block with distinct identifiers, one of them ending like a
\* synthesized one, for which the pass made loads
C15_SuffixedInputReached ==
    /\ normalized
    /\ \E ik \in KeptBlocks :
          /\ TidsPairwiseDistinct(OldBlk(ik))
          /\ \E x \in DOMAIN BlkTids(OldBlk(ik)) :
                EndsWithLoadSuffix(BlkTids(OldBlk(ik))[x].id)
          /\ Len(NewBlk(ik).defs) > Len(OldBlk(ik).defs)

====
